---- MODULE Spec2Model ----
(***************************************************************************)
(* Usage aggregation engine of codex_usage_tracker.py: the Usage Counter   *)
(* (TokenUsage), the Session Log Parser (_parse_session_file), Log         *)
(* Discovery (_discover_session_files) and the Aggregation Engine and      *)
(* Snapshot Assembler (generate_snapshot).                                 *)
(*                                                                         *)
(* Time is counted in minutes since the epoch.  A JSON scalar is a record  *)
(* [k, v]: k is "null", "bool", "int" or "str" (text that is no number).   *)
(***************************************************************************)
EXTENDS Integers, Sequences, FiniteSets, TLC

VARIABLES
    disk,       \* the log files under codex_home: a set of file records
    clock,      \* the wall clock, in minutes
    config,     \* the tracker's configuration, read at construction
    runs,       \* the documents generated since the disk last changed
    parser      \* the running _parse_session_file call of the parser spec

vars == <<disk, clock, config, runs, parser>>

----------------------------------------------------------------------------
(* Python's None, for a datetime, an int or a float that may be absent.     *)
None == -1

NoStr == "<None>"

JNull == [k |-> "null", v |-> 0]

JInt(n) == [k |-> "int", v |-> n]

JStr == [k |-> "str", v |-> 0]

JBool(b) == [k |-> "bool", v |-> IF b THEN 1 ELSE 0]

DEFAULT_SESSION_WINDOW_MINUTES == 300

DEFAULT_WEEK_WINDOW_MINUTES == 10080

TOP_SESSIONS == 10

Max(a, b) == IF a >= b THEN a ELSE b

Min(a, b) == IF a <= b THEN a ELSE b

----------------------------------------------------------------------------
(* Helpers of the module: _safe_int, _safe_int_or_none, _safe_float_or_none, *)
(* _safe_str, _parse_iso8601.                                               *)

_safe_int(value, default) ==
    CASE value.k = "null" -> default
      [] value.k = "bool" -> value.v
      [] value.k = "int"  -> value.v
      [] OTHER            -> default

_safe_int_or_none(value) ==
    CASE value.k = "null" -> None
      [] value.k = "bool" -> value.v
      [] value.k = "int"  -> value.v
      [] OTHER            -> None

(* A float is kept as the fraction num/den; None is den = 0.                *)
NoFloat == [num |-> 0, den |-> 0]

_safe_float_or_none(value) ==
    CASE value.k = "null" -> NoFloat
      [] value.k = "bool" -> [num |-> value.v, den |-> 1]
      [] value.k = "int"  -> [num |-> value.v, den |-> 1]
      [] OTHER            -> NoFloat

(* A JSON timestamp: k = "null" (absent or not a string), "bad" (text that  *)
(* is no ISO-8601 date) or "iso": wall-clock minutes `wall` at UTC offset   *)
(* `off` (0 for a trailing Z and for no offset at all).                     *)
NoTs == [k |-> "null", wall |-> 0, off |-> 0]

BadTs == [k |-> "bad", wall |-> 0, off |-> 0]

Iso(wall, off) == [k |-> "iso", wall |-> wall, off |-> off]

_parse_iso8601(value) ==
    IF value.k = "iso" THEN value.wall - value.off ELSE None

----------------------------------------------------------------------------
(* TokenUsage                                                              *)

Fields ==
    {"input_tokens", "cached_input_tokens", "output_tokens",
     "reasoning_output_tokens", "total_tokens"}

TokenUsage(i, c, o, r, t) ==
    [input_tokens |-> i, cached_input_tokens |-> c, output_tokens |-> o,
     reasoning_output_tokens |-> r, total_tokens |-> t]

Zero == TokenUsage(0, 0, 0, 0, 0)

(* The value of total_token_usage: a dict of JSON scalars (a missing key    *)
(* reads as null), or something that is no dict.                            *)
Mapping(i, c, o, r, t) ==
    [isdict |-> TRUE, m |-> TokenUsage(i, c, o, r, t)]

NoMapping == [isdict |-> FALSE, m |-> TokenUsage(JNull, JNull, JNull, JNull, JNull)]

from_mapping(value) ==
    IF ~value.isdict THEN Zero
    ELSE [f \in Fields |-> _safe_int(value.m[f], 0)]

add(self, other) == [f \in Fields |-> self[f] + other[f]]

deltaUnclamped(self, previous) == [f \in Fields |-> self[f] - previous[f]]

delta(self, previous) == [f \in Fields |-> Max(0, self[f] - previous[f])]

has_activity(self) == \E f \in Fields : self[f] > 0

----------------------------------------------------------------------------
(* The records of a session log.                                           *)

(* One sub-window of a rate-limit structure (a dict, or something else).    *)
Sub(used, win, resets) ==
    [isdict |-> TRUE, used_percent |-> used, window_minutes |-> win,
     resets_at |-> resets]

NoSub ==
    [isdict |-> FALSE, used_percent |-> JNull, window_minutes |-> JNull,
     resets_at |-> JNull]

(* payload["rate_limits"]: k = "none" (absent, or no dict), "empty" (the    *)
(* dict {}) or "dict".  credits is 0 when absent, else names the structure. *)
RateLimits(primary, secondary, credits) ==
    [k |-> "dict", primary |-> primary, secondary |-> secondary,
     credits |-> credits]

NoRateLimits == [k |-> "none", primary |-> NoSub, secondary |-> NoSub, credits |-> 0]

EmptyRateLimits == [k |-> "empty", primary |-> NoSub, secondary |-> NoSub, credits |-> 0]

EmptyPayload ==
    [isdict |-> TRUE, id |-> "", timestamp |-> NoTs, cli_version |-> NoStr,
     type |-> "", info |-> NoMapping, rate_limits |-> NoRateLimits]

(* A line of the file: k = "blank", "invalid" (text that is no JSON, such   *)
(* as a line cut short), "scalar" (JSON that is no object: a number, a      *)
(* string, a list, null) or "object".                                       *)
Line(k, ts, type, payload) ==
    [k |-> k, timestamp |-> ts, type |-> type, payload |-> payload]

BlankLine == Line("blank", NoTs, "", EmptyPayload)

InvalidLine == Line("invalid", NoTs, "", EmptyPayload)

ScalarLine == Line("scalar", NoTs, "", EmptyPayload)

SessionMeta(ts, id, started, version) ==
    Line("object", ts, "session_meta",
         [EmptyPayload EXCEPT !.id = id, !.timestamp = started,
                              !.cli_version = version])

(* An event_msg record whose payload is a token_count; info is the value of *)
(* info["total_token_usage"] (NoMapping also when info is no dict).         *)
TokenCount(ts, usage, rl) ==
    Line("object", ts, "event_msg",
         [EmptyPayload EXCEPT !.type = "token_count", !.info = usage,
                              !.rate_limits = rl])

OtherRecord(ts) ==
    Line("object", ts, "response_item", [EmptyPayload EXCEPT !.isdict = FALSE])

----------------------------------------------------------------------------
(* _parse_session_file                                                     *)

(* The locals of _parse_session_file before the first line.  status is      *)
(* "reading", "raised" (an exception that is not an OSError left the        *)
(* function) or "oserror"; seen is the number of lines consumed.            *)
ParserInit(stem) ==
    [status |-> "reading", seen |-> 0,
     session_id |-> stem, started_at |-> None, last_event_at |-> None,
     cli_version |-> NoStr, totals |-> Zero,
     prev_totals |-> [some |-> FALSE, val |-> Zero],
     events |-> <<>>, latest_rate_limits |-> NoRateLimits,
     rate_limits_timestamp |-> None]

LastEventAt(last_event_at, timestamp) ==
    IF timestamp # None /\ (last_event_at = None \/ timestamp > last_event_at)
    THEN timestamp ELSE last_event_at

Or(a, b) == IF a # None THEN a ELSE b

(* The delta of one token_count record against the cursor.                  *)
RecordDelta(total_usage, prev_totals) ==
    IF ~prev_totals.some THEN total_usage ELSE delta(total_usage, prev_totals.val)

(* The usage part of a token_count record, lines 191-199.                   *)
NoCursorAdvance(p, total_usage, timestamp, now) ==
    LET d == RecordDelta(total_usage, p.prev_totals) IN
    IF ~has_activity(total_usage) THEN p
    ELSE IF has_activity(d)
         THEN [p EXCEPT !.prev_totals = [some |-> TRUE, val |-> total_usage],
                        !.events = Append(@, [ts |-> Or(timestamp, now), usage |-> d]),
                        !.totals = add(@, d)]
         ELSE p

StampWithNow(p, total_usage, timestamp, now) ==
    LET d == RecordDelta(total_usage, p.prev_totals) IN
    IF ~has_activity(total_usage) THEN p
    ELSE LET q == [p EXCEPT !.prev_totals = [some |-> TRUE, val |-> total_usage]] IN
         IF has_activity(d)
         THEN [q EXCEPT !.events = Append(@, [ts |-> now, usage |-> d]),
                        !.totals = add(@, d)]
         ELSE q

AdvanceOnZero(p, total_usage, timestamp, now) ==
    LET d == RecordDelta(total_usage, p.prev_totals)
        q == [p EXCEPT !.prev_totals = [some |-> TRUE, val |-> total_usage]]
    IN  IF has_activity(total_usage) /\ has_activity(d)
        THEN [q EXCEPT !.events = Append(@, [ts |-> Or(timestamp, now), usage |-> d]),
                       !.totals = add(@, d)]
        ELSE q

DropUnstamped(p, total_usage, timestamp, now) ==
    LET d == RecordDelta(total_usage, p.prev_totals) IN
    IF ~has_activity(total_usage) THEN p
    ELSE LET q == [p EXCEPT !.prev_totals = [some |-> TRUE, val |-> total_usage]] IN
         IF has_activity(d)
         THEN [q EXCEPT !.events = IF timestamp = None THEN @
                                   ELSE Append(@, [ts |-> timestamp, usage |-> d]),
                        !.totals = add(@, d)]
         ELSE q

CountUsage(p, total_usage, timestamp, now) ==
    LET d == RecordDelta(total_usage, p.prev_totals) IN
    IF ~has_activity(total_usage) THEN p
    ELSE LET q == [p EXCEPT !.prev_totals = [some |-> TRUE, val |-> total_usage]] IN
         IF has_activity(d)
         THEN [q EXCEPT !.events = Append(@, [ts |-> Or(timestamp, now), usage |-> d]),
                        !.totals = add(@, d)]
         ELSE q

(* The rate-limit part of a token_count record, lines 201-204.              *)
CountRateLimits(p, rate_limits, timestamp) ==
    IF rate_limits.k = "none" THEN p
    ELSE [p EXCEPT !.latest_rate_limits = rate_limits,
                   !.rate_limits_timestamp = Or(timestamp, @)]

(* The body of the loop over the file's lines, lines 158-204, for an        *)
(* object: now is what datetime.now reads on this line.                     *)
ParseObject(p, item, now) ==
    LET timestamp == _parse_iso8601(item.timestamp)
        payload == IF item.payload.isdict THEN item.payload ELSE EmptyPayload
    IN  IF item.type = "session_meta"
        THEN [p EXCEPT
                !.session_id = IF payload.id # "" THEN payload.id ELSE @,
                !.started_at = Or(_parse_iso8601(payload.timestamp), Or(timestamp, @)),
                !.cli_version = IF payload.cli_version \notin {NoStr, ""}
                                THEN payload.cli_version ELSE @,
                !.last_event_at = LastEventAt(@, timestamp)]
        ELSE IF item.type # "event_msg" \/ payload.type # "token_count"
        THEN p
        ELSE CountRateLimits(
                 CountUsage([p EXCEPT !.last_event_at = LastEventAt(@, timestamp)],
                            from_mapping(payload.info), timestamp, now),
                 payload.rate_limits, timestamp)

(* A line that is no JSON object: json.loads gives a value with no .get,    *)
(* and the AttributeError is caught by neither except clause.               *)
SkipScalar(p) == p

ParseScalar(p) == [p EXCEPT !.status = "raised"]

ParseLine(p, line, now) ==
    LET q == [p EXCEPT !.seen = @ + 1] IN
    CASE line.k = "blank"   -> q
      [] line.k = "invalid" -> q
      [] line.k = "scalar"  -> ParseScalar(q)
      [] OTHER              -> ParseObject(q, line, now)

(* A file: its stem, its lines, and fail_at: None, or the number of lines   *)
(* read before the read fails with an OSError (0: the open fails).          *)
File(root, name, stem, lines, fail_at) ==
    [root |-> root, name |-> name, stem |-> stem, lines |-> lines,
     fail_at |-> fail_at]

(* One turn of the loop: the read of the next line fails, or the line is    *)
(* parsed.                                                                 *)
ReadNext(p, file, now) ==
    IF file.fail_at # None /\ p.seen >= file.fail_at
    THEN [p EXCEPT !.status = "oserror"]
    ELSE ParseLine(p, file.lines[p.seen + 1], now)

AtEnd(p, file) ==
    p.status = "reading" /\ p.seen >= Len(file.lines)
    /\ ~(file.fail_at # None /\ p.seen >= file.fail_at)

RECURSIVE ReadAll(_, _, _)
ReadAll(p, file, now) ==
    IF p.status # "reading" \/ AtEnd(p, file) THEN p
    ELSE ReadAll(ReadNext(p, file, now), file, now)

(* What _parse_session_file returns, lines 206-222: result is "None",       *)
(* "ParsedSession", or "raised" when an exception leaves the function.      *)
NoSession(result) ==
    [result |-> result, session_id |-> "", file_path |-> <<"", 0>>,
     started_at |-> None, last_event_at |-> None, cli_version |-> NoStr,
     totals |-> Zero, events |-> <<>>, latest_rate_limits |-> NoRateLimits,
     rate_limits_timestamp |-> None]

KeepEverySession(p, file) ==
    CASE p.status = "raised"  -> NoSession("raised")
      [] p.status = "oserror" -> NoSession("None")
      [] OTHER ->
            [result |-> "ParsedSession", session_id |-> p.session_id,
             file_path |-> <<file.root, file.name>>,
             started_at |-> p.started_at, last_event_at |-> p.last_event_at,
             cli_version |-> p.cli_version, totals |-> p.totals,
             events |-> p.events, latest_rate_limits |-> p.latest_rate_limits,
             rate_limits_timestamp |-> p.rate_limits_timestamp]

PartialOnError(p, file) ==
    IF p.status = "oserror" /\ p.events # <<>>
    THEN KeepEverySession([p EXCEPT !.status = "reading"], file)
    ELSE IF p.status = "reading" /\ p.events = <<>> /\ p.totals.total_tokens = 0
    THEN NoSession("None")
    ELSE KeepEverySession(p, file)

Return(p, file) ==
    CASE p.status = "raised"  -> NoSession("raised")
      [] p.status = "oserror" -> NoSession("None")
      [] p.events = <<>> /\ p.totals.total_tokens = 0 -> NoSession("None")
      [] OTHER ->
            [result |-> "ParsedSession", session_id |-> p.session_id,
             file_path |-> <<file.root, file.name>>,
             started_at |-> p.started_at, last_event_at |-> p.last_event_at,
             cli_version |-> p.cli_version, totals |-> p.totals,
             events |-> p.events, latest_rate_limits |-> p.latest_rate_limits,
             rate_limits_timestamp |-> p.rate_limits_timestamp]

_parse_session_file(file, now) ==
    Return(ReadAll(ParserInit(file.stem), file, now), file)

----------------------------------------------------------------------------
(* _discover_session_files                                                 *)

RECURSIVE SortedByName(_)
SortedByName(S) ==
    IF S = {} THEN <<>>
    ELSE LET first == CHOOSE x \in S : \A y \in S : x.name <= y.name
         IN  <<first>> \o SortedByName(S \ {first})

_discover_session_files(d) ==
    SortedByName({f \in d : f.root = "sessions"})
        \o SortedByName({f \in d : f.root = "archived_sessions"})

----------------------------------------------------------------------------
(* generate_snapshot                                                       *)

(* Text of an instant given in seconds, or None.                            *)
NoText == [iso |-> FALSE, t |-> 0]

IsoText(seconds) == [iso |-> TRUE, t |-> seconds]

_to_iso8601(value) == IF value = None THEN NoText ELSE IsoText(value * 60)

_epoch_to_iso8601(value) == IF value = None THEN NoText ELSE IsoText(value)

(* An int that may be None and may be negative.                             *)
Nothing == [some |-> FALSE, v |-> 0]

Some(v) == [some |-> TRUE, v |-> v]

SecondsUntilOrZero(epoch, now) ==
    Some((IF epoch = None THEN 0 ELSE epoch) - now * 60)

_seconds_until_epoch(epoch, now) ==
    IF epoch = None THEN Nothing ELSE Some(epoch - now * 60)

(* The local time zone of the machine, minutes east of UTC.                 *)
LOCAL_UTC_OFFSET == 180

(* ts.astimezone().date(): the local calendar day, counted from the epoch.  *)
LocalDate(ts) == (ts + LOCAL_UTC_OFFSET) \div 1440

(* list.sort(key=...): stable, ascending in the key.                        *)
RECURSIVE InsertByTs(_, _)
InsertByTs(sorted, e) ==
    IF sorted = <<>> THEN <<e>>
    ELSE IF sorted[Len(sorted)].ts <= e.ts THEN Append(sorted, e)
    ELSE Append(InsertByTs(SubSeq(sorted, 1, Len(sorted) - 1), e), sorted[Len(sorted)])

RECURSIVE SortByTs(_)
SortByTs(events) ==
    IF events = <<>> THEN <<>>
    ELSE InsertByTs(SortByTs(SubSeq(events, 1, Len(events) - 1)), events[Len(events)])

RECURSIVE InsertLaterFirst(_, _)
InsertLaterFirst(sorted, s) ==
    IF sorted = <<>> THEN <<s>>
    ELSE IF sorted[Len(sorted)].totals.total_tokens > s.totals.total_tokens
    THEN Append(sorted, s)
    ELSE Append(InsertLaterFirst(SubSeq(sorted, 1, Len(sorted) - 1), s), sorted[Len(sorted)])

(* sorted(key=total_tokens, reverse=True): stable, descending in the key.   *)
RECURSIVE InsertByTotal(_, _)
InsertByTotal(sorted, s) ==
    IF sorted = <<>> THEN <<s>>
    ELSE IF sorted[Len(sorted)].totals.total_tokens >= s.totals.total_tokens
    THEN Append(sorted, s)
    ELSE Append(InsertByTotal(SubSeq(sorted, 1, Len(sorted) - 1), s), sorted[Len(sorted)])

RECURSIVE SortByTotal(_)
SortByTotal(sessions) ==
    IF sessions = <<>> THEN <<>>
    ELSE InsertByTotal(SortByTotal(SubSeq(sessions, 1, Len(sessions) - 1)),
                       sessions[Len(sessions)])

Take(seq, n) == SubSeq(seq, 1, Min(n, Len(seq)))

RECURSIVE SumUsage(_)
SumUsage(events) ==
    IF events = <<>> THEN Zero
    ELSE add(SumUsage(SubSeq(events, 1, Len(events) - 1)), events[Len(events)].usage)

(* sum_window, lines 251-257.                                               *)
sum_window(all_events, now, minutes) ==
    LET cutoff == now - minutes
        InWindow(e) == e.ts >= cutoff
    IN  SumUsage(SelectSeq(all_events, InWindow))

(* The loop over the files, lines 236-247.  `acc` is the loop's state.      *)
LoopInit ==
    [raised |-> FALSE, parsed_sessions |-> <<>>, all_events |-> <<>>,
     latest_rate_limits |-> NoRateLimits, latest_rate_limits_at |-> None]

LaterOrEqual(at, latest_at) == latest_at = None \/ at >= latest_at

Later(at, latest_at) == latest_at = None \/ at > latest_at

LoopBody(acc, parsed) ==
    IF acc.raised THEN acc
    ELSE IF parsed.result = "raised" THEN [acc EXCEPT !.raised = TRUE]
    ELSE IF parsed.result = "None" THEN acc
    ELSE LET a == [acc EXCEPT !.parsed_sessions = Append(@, parsed),
                              !.all_events = @ \o parsed.events]
         IN  IF parsed.latest_rate_limits.k = "dict"
                /\ parsed.rate_limits_timestamp # None
                /\ Later(parsed.rate_limits_timestamp, a.latest_rate_limits_at)
             THEN [a EXCEPT !.latest_rate_limits = parsed.latest_rate_limits,
                            !.latest_rate_limits_at = parsed.rate_limits_timestamp]
             ELSE a

RECURSIVE Loop(_, _, _)
Loop(session_files, i, parse_now) ==
    IF i = 0 THEN LoopInit
    ELSE LoopBody(Loop(session_files, i - 1, parse_now),
                  _parse_session_file(session_files[i], parse_now))

(* Lines 271-280: the used-percent of one window.                           *)
FallbackPercent(usage_total, limit) ==
    IF usage_total >= limit THEN [num |-> 100, den |-> 1]
    ELSE [num |-> usage_total * 100, den |-> limit]

UncappedPercent(rate, usage_total, limit) ==
    LET percent == _safe_float_or_none(rate.used_percent) IN
    IF percent = NoFloat /\ limit # None /\ limit > 0
    THEN [num |-> usage_total * 100, den |-> limit]
    ELSE percent

UsedPercent(rate, usage_total, limit) ==
    LET percent == _safe_float_or_none(rate.used_percent) IN
    IF percent = NoFloat /\ limit # None /\ limit > 0
    THEN FallbackPercent(usage_total, limit)
    ELSE percent

(* Lines 291-301: the daily totals, most recent day first.                  *)
RECURSIVE DailyTotals(_, _)
DailyTotals(all_events, days) ==
    IF days = {} THEN <<>>
    ELSE LET day == CHOOSE d \in days : \A o \in days : d >= o
             OnDay(e) == LocalDate(e.ts) = day
         IN  <<[day |-> day, usage |-> SumUsage(SelectSeq(all_events, OnDay))]>>
                 \o DailyTotals(all_events, days \ {day})

(* Lines 303-308: max() keeps the first of the sessions with the greatest   *)
(* key; a session with no last_event_at has the epoch as its key.           *)
ActiveKey(sess) == IF sess.last_event_at = None THEN 0 ELSE sess.last_event_at

RECURSIVE ActiveIndex(_, _)
ActiveIndex(sessions, n) ==
    IF n <= 1 THEN n
    ELSE LET best == ActiveIndex(sessions, n - 1) IN
         IF ActiveKey(sessions[n]) > ActiveKey(sessions[best]) THEN n ELSE best

SessionSummary(item) ==
    [session_id |-> item.session_id, file_path |-> item.file_path,
     started_at |-> _to_iso8601(item.started_at),
     last_event_at |-> _to_iso8601(item.last_event_at),
     totals |-> item.totals, cli_version |-> item.cli_version]

NoActiveSession ==
    [session_id |-> NoStr, file_path |-> <<NoStr, 0>>, started_at |-> NoText,
     last_event_at |-> NoText, totals |-> Zero, cli_version |-> NoStr]

RECURSIVE MaxTs(_)
MaxTs(events) ==
    IF events = <<>> THEN None
    ELSE Max(events[Len(events)].ts, MaxTs(SubSeq(events, 1, Len(events) - 1)))

_safe_dict(sub) == IF sub.isdict THEN sub ELSE NoSub

(* The document of lines 249-394, from the state the loop leaves.           *)
Assemble(acc, session_files, now, cfg) ==
    LET all_events == SortByTs(acc.all_events)
        session_window_minutes ==
            _safe_int(cfg.session_window_minutes, DEFAULT_SESSION_WINDOW_MINUTES)
        week_window_minutes ==
            _safe_int(cfg.week_window_minutes, DEFAULT_WEEK_WINDOW_MINUTES)
        session_limit_tokens == _safe_int_or_none(cfg.session_limit_tokens)
        week_limit_tokens == _safe_int_or_none(cfg.week_limit_tokens)
        session_window_usage == sum_window(all_events, now, session_window_minutes)
        weekly_window_usage == sum_window(all_events, now, week_window_minutes)
        primary_rate == _safe_dict(acc.latest_rate_limits.primary)
        secondary_rate == _safe_dict(acc.latest_rate_limits.secondary)
        session_percent ==
            UsedPercent(primary_rate, session_window_usage.total_tokens,
                        session_limit_tokens)
        weekly_percent ==
            UsedPercent(secondary_rate, weekly_window_usage.total_tokens,
                        week_limit_tokens)
        session_resets_epoch == _safe_int_or_none(primary_rate.resets_at)
        weekly_resets_epoch == _safe_int_or_none(secondary_rate.resets_at)
        sessions == acc.parsed_sessions
    IN  [generated_at |-> IsoText(now * 60),
         files_scanned |-> Len(session_files),
         sessions_count |-> Len(sessions),
         events_count |-> Len(all_events),
         last_activity_at |-> _to_iso8601(MaxTs(all_events)),
         windows |->
            [last_5h |-> sum_window(all_events, now, 5 * 60),
             last_24h |-> sum_window(all_events, now, 24 * 60),
             last_7d |-> sum_window(all_events, now, 7 * 24 * 60),
             last_30d |-> sum_window(all_events, now, 30 * 24 * 60),
             all_time |-> SumUsage(all_events)],
         session_window |->
            [window_minutes |-> session_window_minutes,
             usage |-> session_window_usage,
             used_percent |-> session_percent,
             resets_at |-> _epoch_to_iso8601(session_resets_epoch),
             resets_at_epoch |-> session_resets_epoch,
             resets_in_seconds |-> _seconds_until_epoch(session_resets_epoch, now)],
         weekly_window |->
            [window_minutes |-> week_window_minutes,
             usage |-> weekly_window_usage,
             used_percent |-> weekly_percent,
             resets_at |-> _epoch_to_iso8601(weekly_resets_epoch),
             resets_at_epoch |-> weekly_resets_epoch,
             resets_in_seconds |-> _seconds_until_epoch(weekly_resets_epoch, now)],
         rate_limits |->
            [captured_at |-> _to_iso8601(acc.latest_rate_limits_at),
             primary |->
                [used_percent |-> session_percent,
                 window_minutes |->
                    _safe_int(primary_rate.window_minutes, session_window_minutes),
                 resets_at_epoch |-> session_resets_epoch,
                 resets_at |-> _epoch_to_iso8601(session_resets_epoch)],
             secondary |->
                [used_percent |-> weekly_percent,
                 window_minutes |->
                    _safe_int(secondary_rate.window_minutes, week_window_minutes),
                 resets_at_epoch |-> weekly_resets_epoch,
                 resets_at |-> _epoch_to_iso8601(weekly_resets_epoch)],
             credits |-> acc.latest_rate_limits.credits],
         active_session |->
            IF sessions = <<>> THEN NoActiveSession
            ELSE SessionSummary(sessions[ActiveIndex(sessions, Len(sessions))]),
         daily_totals |->
            DailyTotals(all_events,
                        {LocalDate(all_events[i].ts) : i \in 1..Len(all_events)}),
         top_sessions |->
            LET top == Take(SortByTotal(sessions), TOP_SESSIONS)
            IN  [i \in 1..Len(top) |-> SessionSummary(top[i])],
         config |->
            [session_limit_tokens |-> session_limit_tokens,
             week_limit_tokens |-> week_limit_tokens,
             session_window_minutes |-> session_window_minutes,
             week_window_minutes |-> week_window_minutes]]

(* One call of generate_snapshot: now is the clock at line 225, parse_now   *)
(* what datetime.now reads while the files are parsed.  The call returns    *)
(* the document, or an exception of the parser leaves it.                   *)
generate_snapshot(d, now, parse_now, cfg) ==
    LET session_files == _discover_session_files(d)
        acc == Loop(session_files, Len(session_files), parse_now)
    IN  IF acc.raised
        THEN [raised |-> TRUE, now |-> now, parse_now |-> parse_now,
              acc |-> LoopInit, snapshot |-> <<>>]
        ELSE [raised |-> FALSE, now |-> now, parse_now |-> parse_now, acc |-> acc,
              snapshot |-> Assemble(acc, session_files, now, cfg)]

----------------------------------------------------------------------------
(* Bounds and inputs.                                                      *)

MaxLines == 4

MaxFiles == 2

MaxTicks == 1

MaxTopFiles == 11

(* The clock when the model starts, and instants around the cutoffs of the  *)
(* rolling windows as seen from it.                                        *)
Start == 40 * 24 * 60

Over30d == Start - 30 * 24 * 60 - 60

At7d == Start - 7 * 24 * 60

In24h == Start - 24 * 60 + 30

At5h == Start - 5 * 60

Recent == Start - 10

U100 == Mapping(JInt(60), JNull, JInt(40), JStr, JInt(100))

U150 == Mapping(JInt(100), JNull, JInt(50), JNull, JInt(150))

U140 == Mapping(JInt(100), JNull, JInt(40), JNull, JInt(140))

U200 == Mapping(JInt(120), JBool(FALSE), JInt(80), JNull, JInt(200))

UNeg == Mapping(JInt(0 - 5), JNull, JInt(45), JNull, JInt(10))

UZero == Mapping(JInt(0), JNull, JNull, JNull, JInt(0))

UBelow == Mapping(JInt(0 - 3), JNull, JNull, JNull, JInt(0))

RL_A == RateLimits(Sub(JInt(40), JInt(300), JInt(Start * 60 + 3600)),
                   Sub(JInt(70), JInt(10080), JInt(Start * 60 - 600)), 1)

RL_B == RateLimits(Sub(JStr, JNull, JNull), NoSub, 0)

RL_C == RateLimits(Sub(JInt(90), JNull, JNull), NoSub, 2)

(* The lines the parser spec draws from.                                    *)
LogLines ==
    {BlankLine, InvalidLine, ScalarLine,
     SessionMeta(Iso(In24h, 0), "sess-1", Iso(At7d, 0), "0.42"),
     OtherRecord(Iso(Recent, 0)),
     TokenCount(Iso(In24h, 0), U100, NoRateLimits),
     TokenCount(Iso(At5h + 60, 60), U150, RL_A),
     TokenCount(BadTs, U140, NoRateLimits),
     TokenCount(Iso(Recent, 0), U200, EmptyRateLimits),
     TokenCount(Iso(In24h, 0), UNeg, NoRateLimits),
     TokenCount(NoTs, UZero, RL_B),
     TokenCount(Iso(Recent, 0), UBelow, NoRateLimits)}

(* The contents of the files the aggregation spec draws from: the root, the *)
(* lines, and where the read fails.                                         *)
Content(root, lines, fail_at) == [root |-> root, lines |-> lines, fail_at |-> fail_at]

FileContents ==
    {Content("sessions",
             <<SessionMeta(Iso(Over30d, 0), "old", Iso(Over30d, 0), "0.40"),
               TokenCount(Iso(Over30d, 0), U100, NoRateLimits),
               TokenCount(Iso(At7d, 0), U150, NoRateLimits),
               TokenCount(Iso(At5h, 0), U200, EmptyRateLimits)>>, None),
     Content("sessions",
             <<TokenCount(Iso(Recent, 0), U100, RL_A)>>, None),
     Content("archived_sessions",
             <<TokenCount(Iso(Recent, 0), U140, RL_B)>>, None),
     Content("sessions",
             <<TokenCount(Iso(In24h, 0), UNeg, NoRateLimits)>>, None),
     Content("sessions",
             <<TokenCount(BadTs, U150, RL_C)>>, None),
     Content("archived_sessions",
             <<SessionMeta(Iso(Recent + 5, 0), "meta", NoTs, NoStr),
               TokenCount(Iso(Recent + 5, 0), UZero, RL_C)>>, None),
     Content("sessions",
             <<TokenCount(Iso(Recent, 0), U200, RL_C)>>, 1),
     Content("sessions",
             <<TokenCount(Iso(Recent, 0), U100, NoRateLimits), ScalarLine>>, None),
     Content("archived_sessions",
             <<TokenCount(Iso(Recent, 0), U100, RL_A)>>, 0)}

(* config.json as _load_config returns it.                                  *)
Config(sl, wl, sw, ww) ==
    [session_limit_tokens |-> sl, week_limit_tokens |-> wl,
     session_window_minutes |-> sw, week_window_minutes |-> ww]

(* No config.json: _load_config returns {}.                                 *)
NoConfig == Config(JNull, JNull, JNull, JNull)

Configs ==
    {NoConfig,
     Config(JInt(280), JInt(120), JInt(300), JStr),
     Config(JInt(0), JStr, JInt(1), JNull)}

----------------------------------------------------------------------------
(* The parser spec: one call of _parse_session_file, a line at a time.      *)

FileName(n) ==
    CASE n = 1 -> "rollout-01" [] n = 2 -> "rollout-02" [] n = 3 -> "rollout-03"
      [] n = 4 -> "rollout-04" [] n = 5 -> "rollout-05" [] n = 6 -> "rollout-06"
      [] n = 7 -> "rollout-07" [] n = 8 -> "rollout-08" [] n = 9 -> "rollout-09"
      [] n = 10 -> "rollout-10" [] n = 11 -> "rollout-11" [] n = 12 -> "rollout-12"
      [] OTHER -> "rollout-13"

ParserIdle ==
    [file |-> File("sessions", 1, FileName(1), <<>>, None),
     p |-> ParserInit(FileName(1)),
     result |-> NoSession("pending")]

Pending == parser.result.result = "pending"

(* The loop reads the next line of the file.                                *)
ReadLine ==
    /\ Pending
    /\ parser.p.status = "reading"
    /\ Len(parser.file.lines) < MaxLines
    /\ \E line \in LogLines :
          LET file == [parser.file EXCEPT !.lines = Append(@, line)]
          IN  parser' = [parser EXCEPT !.file = file,
                                       !.p = ReadNext(parser.p, file, clock)]
    /\ UNCHANGED <<disk, clock, config, runs>>

(* The read of the next line fails with an OSError.                         *)
ReadFails ==
    /\ Pending
    /\ parser.p.status = "reading"
    /\ LET file == [parser.file EXCEPT !.fail_at = parser.p.seen]
       IN  parser' = [parser EXCEPT !.file = file,
                                    !.p = ReadNext(parser.p, file, clock)]
    /\ UNCHANGED <<disk, clock, config, runs>>

(* The file ends here, or the loop was left: the function returns.          *)
ReturnParsed ==
    /\ Pending
    /\ parser' = [parser EXCEPT !.result = Return(parser.p, parser.file)]
    /\ UNCHANGED <<disk, clock, config, runs>>

ParseInit ==
    /\ disk = {}
    /\ clock = Start
    /\ config = NoConfig
    /\ runs = <<>>
    /\ parser = ParserIdle

ParseNext == ReadLine \/ ReadFails \/ ReturnParsed

SpecParse == ParseInit /\ [][ParseNext]_vars

----------------------------------------------------------------------------
(* The aggregation spec: files appear, the clock advances, and the tracker  *)
(* generates snapshots.                                                    *)

NewFile(d, content) ==
    LET n == Cardinality(d) + 1
    IN  File(content.root, n, FileName(n), content.lines, content.fail_at)

(* A session of the CLI leaves a new log file.                              *)
CreateFile ==
    /\ Cardinality(disk) < MaxFiles
    /\ \E content \in FileContents : disk' = disk \cup {NewFile(disk, content)}
    /\ runs' = <<>>
    /\ UNCHANGED <<clock, config, parser>>

Tick ==
    /\ clock < Start + MaxTicks
    /\ clock' = clock + 1
    /\ UNCHANGED <<disk, config, runs, parser>>

(* main() builds a tracker and calls generate_snapshot.  runs keeps the     *)
(* last two outcomes over the unchanged disk.                               *)
LastTwo(seq) == IF Len(seq) > 2 THEN SubSeq(seq, Len(seq) - 1, Len(seq)) ELSE seq

GenerateSnapshot ==
    /\ \E parse_now \in {clock, clock + 1} :
          runs' = LastTwo(Append(runs, generate_snapshot(disk, clock, parse_now, config)))
    /\ UNCHANGED <<disk, clock, config, parser>>

Init ==
    /\ disk = {}
    /\ clock = Start
    /\ config = NoConfig
    /\ runs = <<>>
    /\ parser = ParserIdle

Next == CreateFile \/ Tick \/ GenerateSnapshot

Spec == Init /\ [][Next]_vars

----------------------------------------------------------------------------
(* The limits spec: the same under each configuration, the clock standing.  *)

LimitsInit ==
    /\ disk = {}
    /\ clock = Start
    /\ config \in Configs
    /\ runs = <<>>
    /\ parser = ParserIdle

LimitsNext == CreateFile \/ GenerateSnapshot

SpecLimits == LimitsInit /\ [][LimitsNext]_vars

----------------------------------------------------------------------------
(* The top-sessions spec: many one-record sessions.  The n-th file's total  *)
(* is n, or 6 for any of the first six: totals that differ, totals that     *)
(* tie, and a tie among the lowest, where the list is cut.                  *)

OneRecord(total) ==
    Content("sessions",
            <<TokenCount(Iso(Recent, 0),
                         Mapping(JInt(total), JNull, JNull, JNull, JInt(total)),
                         NoRateLimits)>>, None)

CreateSession ==
    /\ Cardinality(disk) < MaxTopFiles
    /\ \E total \in {Cardinality(disk) + 1} \cup (IF Cardinality(disk) < 6 THEN {6} ELSE {}) :
          disk' = disk \cup {NewFile(disk, OneRecord(total))}
    /\ runs' = <<>>
    /\ UNCHANGED <<clock, config, parser>>

TopNext == CreateSession \/ GenerateSnapshot

SpecTop == Init /\ [][TopNext]_vars

----------------------------------------------------------------------------
(* Claims about the parser.                                                *)

IsTokenCount(line) ==
    /\ line.k = "object"
    /\ line.type = "event_msg"
    /\ line.payload.isdict
    /\ line.payload.type = "token_count"

Positive(u) == \E f \in Fields : u[f] > 0

(* The cumulative readings of the token_count records of `lines` that the   *)
(* parser takes as nonzero (some field above 0), in file order.             *)
Readings(lines) ==
    LET Counted(line) == IsTokenCount(line) /\ Positive(from_mapping(line.payload.info))
        counted == SelectSeq(lines, Counted)
    IN  [i \in 1..Len(counted) |-> from_mapping(counted[i].payload.info)]

(* The amount the claim attributes to the i-th reading.                     *)
Increment(r, i) ==
    IF i = 1 THEN r[1]
    ELSE [f \in Fields |-> IF r[i][f] > r[i - 1][f] THEN r[i][f] - r[i - 1][f] ELSE 0]

Increments(r) == [i \in 1..Len(r) |-> Increment(r, i)]

TotalsOf(seq) == [i \in 1..Len(seq) |-> seq[i].total_tokens]

UsagesOf(events) == [i \in 1..Len(events) |-> events[i].usage]

(* C1: after any prefix of a file, the cursor is the last nonzero reading,  *)
(* the Events are, in order, the increments that have activity, the first   *)
(* increment being the reading itself and every later one the fieldwise     *)
(* max(0, reading - previous reading); readings [100, 150, 140, 200] of     *)
(* total_tokens give the increments [100, 50, 0, 60].                       *)
C1_IncrementsFollowCursor ==
    LET r == Readings(parser.file.lines)
        inc == Increments(r)
    IN  /\ parser.p.prev_totals.some = (r # <<>>)
        /\ r # <<>> => parser.p.prev_totals.val = r[Len(r)]
        /\ UsagesOf(parser.p.events) = SelectSeq(inc, Positive)
        /\ TotalsOf(r) = <<100, 150, 140, 200>> => TotalsOf(inc) = <<100, 50, 0, 60>>

C1_Witness ==
    /\ TotalsOf(Readings(parser.file.lines)) = <<100, 150, 140, 200>>
    /\ TotalsOf(UsagesOf(parser.p.events)) = <<100, 50, 60>>
    /\ parser.p.prev_totals.val.total_tokens = 200

NonNegative(u) == \A f \in Fields : u[f] >= 0

(* C2: every Usage Counter of a run has no negative field: every Event's    *)
(* delta, every session's totals, every window sum and every daily bucket.  *)
C2_CountersNeverNegative ==
    \A k \in 1..Len(runs) :
        ~runs[k].raised =>
            LET doc == runs[k].snapshot
                acc == runs[k].acc
            IN  /\ \A i \in 1..Len(acc.all_events) : NonNegative(acc.all_events[i].usage)
                /\ \A i \in 1..Len(acc.parsed_sessions) :
                      NonNegative(acc.parsed_sessions[i].totals)
                /\ \A w \in DOMAIN doc.windows : NonNegative(doc.windows[w])
                /\ NonNegative(doc.session_window.usage)
                /\ NonNegative(doc.weekly_window.usage)
                /\ \A i \in 1..Len(doc.daily_totals) : NonNegative(doc.daily_totals[i].usage)

Without(file, i) ==
    [file EXCEPT !.lines = SubSeq(@, 1, i - 1) \o SubSeq(@, i + 1, Len(@))]

Malformed(line) == line.k \in {"invalid", "scalar"}

(* C3: a line that is no usable record (no JSON, or JSON that is no object) *)
(* is skipped: the call does not raise, and returns what it returns for the *)
(* file without that line.                                                  *)
C3_MalformedLineSkipped ==
    (~Pending /\ parser.file.fail_at = None) =>
        \A i \in 1..Len(parser.file.lines) :
            Malformed(parser.file.lines[i]) =>
                /\ parser.result.result # "raised"
                /\ parser.result = _parse_session_file(Without(parser.file, i), clock)

----------------------------------------------------------------------------
(* Claims about generate_snapshot.  Last is the latest run over the disk.   *)

HasRun == runs # <<>>

Last == runs[Len(runs)]

Returned == HasRun /\ ~Last.raised

LessEq(a, b) == \A f \in Fields : a[f] <= b[f]

(* C4: the rolling windows of one snapshot grow with the window, fieldwise: *)
(* last_5h <= last_24h <= last_7d <= last_30d <= all_time.                  *)
C4_WindowsMonotonic ==
    Returned =>
        LET w == Last.snapshot.windows
        IN  /\ LessEq(w.last_5h, w.last_24h)
            /\ LessEq(w.last_24h, w.last_7d)
            /\ LessEq(w.last_7d, w.last_30d)
            /\ LessEq(w.last_30d, w.all_time)

(* The same, for runs none of whose Events has a negative field.            *)
WindowsMonotonicWithoutNegatives ==
    (Returned /\ \A i \in 1..Len(Last.acc.all_events) :
                    NonNegative(Last.acc.all_events[i].usage))
        => C4_WindowsMonotonic

(* The document without the fields that are relative to the time of the     *)
(* run: generated_at and the two resets_in_seconds.                         *)
Timeless(run) ==
    IF run.raised THEN <<"raised">>
    ELSE <<"returned",
           [run.snapshot EXCEPT !.generated_at = NoText,
                                !.session_window.resets_in_seconds = Nothing,
                                !.weekly_window.resets_in_seconds = Nothing]>>

(* What no clock read can change.                                           *)
Stable(run) ==
    IF run.raised THEN <<"raised">>
    ELSE <<"returned", run.snapshot.files_scanned, run.snapshot.sessions_count,
           run.snapshot.events_count, run.snapshot.windows.all_time,
           run.snapshot.top_sessions, run.snapshot.active_session,
           run.snapshot.rate_limits.captured_at, run.snapshot.config>>

Stamped(file) ==
    \A i \in 1..Len(file.lines) :
        LET line == file.lines[i] IN
        (IsTokenCount(line) /\ Positive(from_mapping(line.payload.info)))
            => line.timestamp.k = "iso"

(* C5, as claimed: two runs over the unchanged disk give the same document  *)
(* but for generated_at and resets_in_seconds.                              *)
C5_TwoRunsSameDocument ==
    Len(runs) = 2 => Timeless(runs[1]) = Timeless(runs[2])

(* C5, amended: two runs over the unchanged disk agree on the counts, the   *)
(* all-time window, the sessions and the rate limits; they give the same    *)
(* document (but for generated_at and resets_in_seconds) when they read the *)
(* same now and every record with usage has a timestamp that parses.        *)
C5_TwoRunsSameWhenStamped ==
    Len(runs) = 2 =>
        /\ Stable(runs[1]) = Stable(runs[2])
        /\ (runs[1].now = runs[2].now /\ \A f \in disk : Stamped(f))
              => Timeless(runs[1]) = Timeless(runs[2])

C5_Witness ==
    /\ Len(runs) = 2
    /\ runs[1].now = runs[2].now
    /\ runs[1].parse_now # runs[2].parse_now
    /\ \A f \in disk : Stamped(f)
    /\ ~runs[2].raised
    /\ runs[2].snapshot.events_count >= 2
    /\ runs[2].snapshot.daily_totals # <<>>

(* The sessions of a run that carry a rate-limit snapshot and its time.     *)
Candidates(sessions) ==
    {i \in 1..Len(sessions) :
        /\ sessions[i].latest_rate_limits.k = "dict"
        /\ sessions[i].rate_limits_timestamp # None}

Newest(sessions) ==
    {i \in Candidates(sessions) :
        \A j \in Candidates(sessions) :
            sessions[j].rate_limits_timestamp <= sessions[i].rate_limits_timestamp}

UsesRateLimitsOf(run, i) ==
    /\ run.acc.latest_rate_limits = run.acc.parsed_sessions[i].latest_rate_limits
    /\ run.acc.latest_rate_limits_at = run.acc.parsed_sessions[i].rate_limits_timestamp

UsesNoRateLimits(run) ==
    /\ run.acc.latest_rate_limits = NoRateLimits
    /\ run.acc.latest_rate_limits_at = None
    /\ run.snapshot.rate_limits.captured_at = NoText

Window(run, name) ==
    IF name = "session" THEN run.snapshot.session_window ELSE run.snapshot.weekly_window

RateOf(run, name) ==
    LET sub == IF name = "session" THEN run.acc.latest_rate_limits.primary
               ELSE run.acc.latest_rate_limits.secondary
    IN  IF sub.isdict THEN sub.used_percent ELSE JNull

LimitOf(name) ==
    IF name = "session" THEN config.session_limit_tokens ELSE config.week_limit_tokens

Numeric(value) == value.k \in {"int", "bool"}

(* C7: used_percent of the session (weekly) window is the used_percent of   *)
(* the primary (secondary) sub-window of the rate limits when there is one; *)
(* otherwise min(100, 100 * usage.total_tokens / limit) when the window's   *)
(* token limit is set and above 0, which is 50 for a limit of twice the     *)
(* usage; otherwise null.  It is null exactly when neither is there.        *)
C7_UsedPercentResolution ==
    Returned =>
        \A name \in {"session", "week"} :
            LET percent == Window(Last, name).used_percent
                usage == Window(Last, name).usage.total_tokens
                rate == RateOf(Last, name)
                limit == LimitOf(name)
                limited == Numeric(limit) /\ limit.v > 0
            IN  /\ Numeric(rate) => percent = [num |-> rate.v, den |-> 1]
                /\ (~Numeric(rate) /\ limited) =>
                      /\ percent.den > 0
                      /\ percent.num * limit.v
                            = Min(100 * limit.v, 100 * usage) * percent.den
                      /\ percent.num <= 100 * percent.den
                      /\ limit.v = 2 * usage => percent.num = 50 * percent.den
                /\ (percent = NoFloat) <=> (~Numeric(rate) /\ ~limited)

C7_Witness ==
    /\ Returned
    /\ ~Numeric(RateOf(Last, "session"))
    /\ Numeric(config.session_limit_tokens)
    /\ config.session_limit_tokens.v = 2 * Last.snapshot.session_window.usage.total_tokens
    /\ Last.snapshot.session_window.used_percent.den > 0
    /\ Last.snapshot.session_window.used_percent.num
          = 50 * Last.snapshot.session_window.used_percent.den
    /\ Last.snapshot.weekly_window.used_percent = [num |-> 100, den |-> 1]

(* The place in discovery order of the session a top_sessions item shows.   *)
PlaceOf(item, sessions) ==
    CHOOSE j \in 1..Len(sessions) : sessions[j].file_path = item.file_path

Total(x) == x.totals.total_tokens

(* C8: top_sessions holds min(10, sessions_count) sessions, those with the  *)
(* highest total_tokens, in non-increasing order of total_tokens, sessions  *)
(* of equal total in discovery order.                                       *)
C8_TopSessions ==
    Returned =>
        LET sessions == Last.acc.parsed_sessions
            top == Last.snapshot.top_sessions
            place == [i \in 1..Len(top) |-> PlaceOf(top[i], sessions)]
            Before(i, j) ==
                \/ Total(sessions[i]) > Total(sessions[j])
                \/ Total(sessions[i]) = Total(sessions[j]) /\ i < j
        IN  /\ Len(top) = Min(10, Last.snapshot.sessions_count)
            /\ \A i \in 1..Len(top) :
                  /\ \E j \in 1..Len(sessions) : sessions[j].file_path = top[i].file_path
                  /\ top[i] = SessionSummary(sessions[place[i]])
            /\ \A i, k \in 1..Len(top) : i < k => Before(place[i], place[k])
            /\ \A j \in 1..Len(sessions) :
                  (\A i \in 1..Len(top) : place[i] # j)
                      => \A i \in 1..Len(top) : Before(place[i], j)

C8_Witness ==
    /\ Returned
    /\ Last.snapshot.sessions_count = 11
    /\ Len(Last.snapshot.top_sessions) = 10
    /\ Total(Last.snapshot.top_sessions[1]) = 11
    /\ \E i \in 1..9 :
          /\ Total(Last.snapshot.top_sessions[i]) = 6
          /\ Total(Last.snapshot.top_sessions[i + 1]) = 6
    /\ \E j \in 1..11 :
          /\ Total(Last.acc.parsed_sessions[j]) = 6
          /\ \A i \in 1..10 :
                Last.snapshot.top_sessions[i].file_path
                    # Last.acc.parsed_sessions[j].file_path

RECURSIVE SumTotals(_)
SumTotals(sessions) ==
    IF sessions = <<>> THEN Zero
    ELSE add(SumTotals(SubSeq(sessions, 1, Len(sessions) - 1)),
             sessions[Len(sessions)].totals)

(* The files that were read to their end and hold a reading above zero.     *)
Productive(file) == file.fail_at = None /\ Readings(file.lines) # <<>>

PathOf(file) == <<file.root, file.name>>

PathsOf(sessions) == [i \in 1..Len(sessions) |-> sessions[i].file_path]

ProductivePaths(files) ==
    LET kept == SelectSeq(files, Productive)
    IN  [i \in 1..Len(kept) |-> PathOf(kept[i])]

(* The Events the loop of _parse_session_file gathered from a file.         *)
EventsOf(file, now) == ReadAll(ParserInit(file.stem), file, now).events

IsSession(file, sessions) ==
    \E i \in 1..Len(sessions) : sessions[i].file_path = PathOf(file)

(* C9, as claimed: a file gives a Parsed Session exactly when it gave an    *)
(* Event.                                                                   *)
C9_SessionIffEvent ==
    Returned =>
        \A f \in disk :
            IsSession(f, Last.acc.parsed_sessions) <=> EventsOf(f, Last.parse_now) # <<>>

(* C9, amended: a file gives a Parsed Session exactly when it was read to   *)
(* its end and gave an Event, and then its totals are not zero; a file with *)
(* only session_meta records, or with token_count records of zero or absent *)
(* counters only, gives none: it is not in sessions_count, adds to no       *)
(* window and its rate limits are not considered.  So does a file whose     *)
(* read fails, whatever Events it gave before.                              *)
C9_SessionIffEventAndRead ==
    Returned =>
        LET sessions == Last.acc.parsed_sessions
            doc == Last.snapshot
        IN  /\ \A f \in disk :
                  IsSession(f, sessions)
                      <=> (f.fail_at = None /\ EventsOf(f, Last.parse_now) # <<>>)
            /\ PathsOf(sessions) = ProductivePaths(_discover_session_files(disk))
            /\ doc.sessions_count = Len(sessions)
            /\ \A i \in 1..Len(sessions) :
                  /\ sessions[i].events # <<>>
                  /\ sessions[i].totals # Zero
            /\ doc.windows.all_time = SumTotals(sessions)
            /\ \/ UsesNoRateLimits(Last)
               \/ \E i \in 1..Len(sessions) : UsesRateLimitsOf(Last, i)

C9_Witness ==
    /\ Returned
    /\ Last.snapshot.files_scanned = 2
    /\ Last.snapshot.sessions_count = 1
    /\ \E f \in disk :
          /\ f.fail_at = None
          /\ Readings(f.lines) = <<>>
          /\ \E i \in 1..Len(f.lines) : f.lines[i].payload.rate_limits = RL_C
    /\ Last.snapshot.rate_limits.captured_at = NoText

(* C10: a failing read of one file leaves the run as it is without that     *)
(* file, but for files_scanned, which counts it: the other files add what   *)
(* they add alone, the file is in no session, and sessions_count is at most *)
(* files_scanned.                                                           *)
C10_ReadFailureIsolated ==
    HasRun =>
        /\ \A f \in disk :
              f.fail_at # None =>
                  LET rest == generate_snapshot(disk \ {f}, Last.now, Last.parse_now, config)
                  IN  /\ Last.raised = rest.raised
                      /\ Last.acc = rest.acc
                      /\ ~Last.raised =>
                            /\ Last.snapshot.files_scanned = rest.snapshot.files_scanned + 1
                            /\ [Last.snapshot EXCEPT !.files_scanned = @ - 1] = rest.snapshot
                            /\ \A i \in 1..Len(Last.acc.parsed_sessions) :
                                  Last.acc.parsed_sessions[i].file_path # PathOf(f)
        /\ ~Last.raised =>
              /\ Last.snapshot.files_scanned = Cardinality(disk)
              /\ Last.snapshot.sessions_count <= Last.snapshot.files_scanned

C10_Witness ==
    /\ Returned
    /\ Last.snapshot.files_scanned = 2
    /\ Last.snapshot.sessions_count = 1
    /\ Last.snapshot.events_count = 1
    /\ \E f \in disk : f.fail_at = 1 /\ Len(f.lines) = 1

(* The keys of the document and of its parts.                               *)
DocumentKeys ==
    {"generated_at", "files_scanned", "sessions_count", "events_count",
     "last_activity_at", "windows", "session_window", "weekly_window",
     "rate_limits", "active_session", "daily_totals", "top_sessions", "config"}

WindowKeys ==
    {"window_minutes", "usage", "used_percent", "resets_at", "resets_at_epoch",
     "resets_in_seconds"}

NoResets(window) ==
    /\ DOMAIN window = WindowKeys
    /\ window.usage = Zero
    /\ window.resets_at = NoText
    /\ window.resets_at_epoch = None
    /\ window.resets_in_seconds = Nothing

NoRate(sub) ==
    /\ DOMAIN sub = {"used_percent", "window_minutes", "resets_at_epoch", "resets_at"}
    /\ sub.resets_at = NoText
    /\ sub.resets_at_epoch = None

(* The used_percent of a run with no usage and no rate limits: null, or 0   *)
(* of a token limit above 0.                                                *)
PercentOfNothing(limit) ==
    IF Numeric(limit) /\ limit.v > 0 THEN [num |-> 0, den |-> limit.v] ELSE NoFloat

(* C11: a run in which no file gives a Parsed Session returns the document  *)
(* with all its keys: the counts 0, last_activity_at null, the five rolling *)
(* windows and the two configurable windows zero, resets_at,                *)
(* resets_at_epoch, resets_in_seconds, captured_at and credits null,        *)
(* used_percent null when no token limit is configured, active_session with *)
(* null identifier and zero totals, daily_totals and top_sessions empty.    *)
C11_DocumentWithoutSessions ==
    (Returned /\ \A f \in disk : ~Productive(f)) =>
        /\ Last.acc.parsed_sessions = <<>>
        /\ LET doc == Last.snapshot
           IN  /\ DOMAIN doc = DocumentKeys
               /\ doc.files_scanned = Cardinality(disk)
               /\ doc.sessions_count = 0
               /\ doc.events_count = 0
               /\ doc.last_activity_at = NoText
               /\ DOMAIN doc.windows
                     = {"last_5h", "last_24h", "last_7d", "last_30d", "all_time"}
               /\ \A w \in DOMAIN doc.windows : doc.windows[w] = Zero
               /\ NoResets(doc.session_window)
               /\ NoResets(doc.weekly_window)
               /\ doc.session_window.used_percent
                     = PercentOfNothing(config.session_limit_tokens)
               /\ doc.weekly_window.used_percent
                     = PercentOfNothing(config.week_limit_tokens)
               /\ doc.rate_limits.captured_at = NoText
               /\ doc.rate_limits.credits = 0
               /\ NoRate(doc.rate_limits.primary)
               /\ NoRate(doc.rate_limits.secondary)
               /\ doc.rate_limits.primary.used_percent = doc.session_window.used_percent
               /\ doc.rate_limits.secondary.used_percent = doc.weekly_window.used_percent
               /\ doc.active_session = NoActiveSession
               /\ doc.active_session.session_id = NoStr
               /\ doc.active_session.totals = Zero
               /\ doc.daily_totals = <<>>
               /\ doc.top_sessions = <<>>

C11_Witness ==
    /\ Returned
    /\ Cardinality(disk) = 2
    /\ \A f \in disk : ~Productive(f)
    /\ \E f \in disk : \E i \in 1..Len(f.lines) : f.lines[i].payload.rate_limits = RL_C
    /\ config.session_limit_tokens = JInt(280)
    /\ Last.snapshot.session_window.used_percent = [num |-> 0, den |-> 280]
    /\ Last.snapshot.weekly_window.used_percent = [num |-> 0, den |-> 120]

(* The sessions of a run that have a last-seen timestamp.                   *)
Dated(sessions) == {i \in 1..Len(sessions) : sessions[i].last_event_at # None}

LatestSeen(sessions) ==
    {i \in Dated(sessions) :
        \A j \in Dated(sessions) : sessions[j].last_event_at <= sessions[i].last_event_at}

(* C12: active_session shows a Parsed Session with the latest last-seen     *)
(* timestamp, never a session with no last-seen timestamp, and has null     *)
(* fields exactly when no session has one, as when there are no sessions.   *)
C12_ActiveSessionIsLatestSeen ==
    Returned =>
        LET sessions == Last.acc.parsed_sessions
            active == Last.snapshot.active_session
        IN  IF Dated(sessions) = {} THEN active = NoActiveSession
            ELSE \E i \in LatestSeen(sessions) : active = SessionSummary(sessions[i])

(* The same, for runs in which some session has a last-seen timestamp or    *)
(* there is no session.                                                     *)
ActiveSessionIsLatestSeenWhenDated ==
    (Returned /\ (Dated(Last.acc.parsed_sessions) # {} \/ Last.acc.parsed_sessions = <<>>))
        => C12_ActiveSessionIsLatestSeen

(* A token_count record whose counter is absent or has no field above 0.    *)
ZeroCount(line) == IsTokenCount(line) /\ ~Positive(from_mapping(line.payload.info))

(* The usage the parser has gathered: Events, totals and cursor.            *)
UsageState(p) == <<p.events, p.totals, p.prev_totals>>

(* C13: a token_count record whose counter is zero or absent appends no     *)
(* Event and leaves the totals and the cursor as they are: the Events, the  *)
(* totals and the cursor of the file are those of the file without that     *)
(* record, so the next nonzero record's delta is taken against the last     *)
(* nonzero reading.                                                         *)
C13_ZeroCountSkipped ==
    parser.file.fail_at = None =>
        \A i \in 1..Len(parser.file.lines) :
            ZeroCount(parser.file.lines[i]) =>
                UsageState(parser.p)
                    = UsageState(ReadAll(ParserInit(parser.file.stem),
                                         Without(parser.file, i), clock))

C13_Witness ==
    /\ parser.file.fail_at = None
    /\ parser.p.status = "reading"
    /\ Len(parser.file.lines) = 3
    /\ Readings(<<parser.file.lines[1]>>) = <<from_mapping(U100)>>
    /\ ZeroCount(parser.file.lines[2])
    /\ parser.file.lines[2].payload.rate_limits = RL_B
    /\ Readings(<<parser.file.lines[3]>>) = <<from_mapping(U150)>>
    /\ Len(parser.p.events) = 2
    /\ parser.p.events[2].usage.total_tokens = 50
    /\ parser.p.prev_totals.val = from_mapping(U150)

(* C14: after any prefix of a file, each field of the totals is at least    *)
(* that field of every nonzero reading read so far, and is that field of    *)
(* the last nonzero reading when the field never went down from one reading *)
(* to the next and the first reading has no negative field.                 *)
C14_TotalsTelescope ==
    LET r == Readings(parser.file.lines)
        totals == parser.p.totals
    IN  \A f \in Fields :
            /\ \A i \in 1..Len(r) : totals[f] >= r[i][f]
            /\ (/\ r # <<>>
                /\ NonNegative(r[1])
                /\ \A i \in 1..(Len(r) - 1) : r[i][f] <= r[i + 1][f])
                  => totals[f] = r[Len(r)][f]

C14_Witness ==
    /\ Readings(parser.file.lines)
          = <<from_mapping(U100), from_mapping(U150), from_mapping(U140),
              from_mapping(U200)>>
    /\ parser.p.seen = 4
    /\ parser.p.totals.total_tokens = 210
    /\ parser.p.totals.input_tokens = 120
    /\ parser.p.totals.output_tokens = 90

RECURSIVE CountEvents(_)
CountEvents(sessions) ==
    IF sessions = <<>> THEN 0
    ELSE CountEvents(SubSeq(sessions, 1, Len(sessions) - 1))
            + Len(sessions[Len(sessions)].events)

(* C15: every Event of every Parsed Session is counted once: all_time is    *)
(* the sum of the sessions' totals, the totals of a session are the sum of  *)
(* its Events, and events_count is the number of the sessions' Events,      *)
(* whether the timestamps of the records parse or not.                      *)
C15_UsageConserved ==
    Returned =>
        LET sessions == Last.acc.parsed_sessions
            doc == Last.snapshot
        IN  /\ doc.windows.all_time = SumTotals(sessions)
            /\ \A i \in 1..Len(sessions) :
                  sessions[i].totals = SumUsage(sessions[i].events)
            /\ doc.events_count = CountEvents(sessions)

C15_Witness ==
    /\ Returned
    /\ Last.snapshot.sessions_count = 2
    /\ Last.snapshot.events_count = 4
    /\ \E f \in disk : ~Stamped(f)
    /\ Last.snapshot.windows.all_time.total_tokens = 350

====
